---- MODULE Spec2Model ----
(***************************************************************************)
(* Model of the agent orchestration loop (core/loop.py, AgentLoop.run) of  *)
(* hsinghweb/eag-v2-s8.  Code between two awaits runs atomically, so one   *)
(* action covers the code from one await (perception, memory retrieval,    *)
(* planner, dispatcher) to the next.  The dispatcher (core/session.py,     *)
(* MultiMCP), parse_function_call (modules/action.py) with its scan for    *)
(* the first "=", generate_plan (modules/decision.py) and the rate-limit   *)
(* retry of the model layer (modules/model_manager.py) are modelled by     *)
(* DispatcherSpec, ParserSpec, ScanSpec, PlanSpec and RetrySpec over       *)
(* variables of their own.                                                 *)
(***************************************************************************)
EXTENDS Integers, Sequences, FiniteSets, TLC

\* ------------------------------------------------------------------------
\* Bounds of the model
\* ------------------------------------------------------------------------
\* max_steps ranges over 0..MaxStepsBound when the planner and the backends
\* are unconstrained ("open"); NarrowSteps and GuidedSteps are the step
\* budgets of the two longer scenarios (see PlannerOutputs, DispatcherResults)
MaxStepsBound == 3
NarrowSteps == 6
GuidedSteps == 7

\* the dispatcher is configured with 1..MaxBackends backends;
\* parse_function_call is applied to at most MaxParts parameters
MaxBackends == 2
MaxParts == 2

\* a dotted key has at most MaxDepth segments
MaxDepth == 3
MaxChars == 5

\* the model answers generate_plan with at most MaxLines lines
MaxLines == 3

\* ------------------------------------------------------------------------
\* Program constants
\* ------------------------------------------------------------------------
max_retries_per_step == 3
max_consecutive_failures == 3
max_tool_attempts == 3
RepeatLimit == 2

\* ------------------------------------------------------------------------
\* Tool names, arguments, fingerprints
\* ------------------------------------------------------------------------
Tools == {"search", "create_google_sheet", "add_data_to_sheet", "get_sheet_link"}

\* "search" in tool_name.lower(), "create_google_sheet" in tool_name.lower(), ...
IsSearchTool(t) == t = "search"
IsCreateTool(t) == t = "create_google_sheet"
IsAddTool(t) == t = "add_data_to_sheet"
IsLinkTool(t) == t = "get_sheet_link"

\* An argument map is modelled by the pair <<first 50 characters of its
\* serialisation, the rest>>; the two maps below differ only after the prefix.
Args == {<<1, 1>>, <<1, 2>>}

NoCall == <<"None", 0>>

\* f"{tool_name}_{str(arguments)[:50]}"
Fingerprint(tool, args) == <<tool, args[1]>>

Fingerprints == {Fingerprint(t, a) : t \in Tools, a \in Args}

\* ------------------------------------------------------------------------
\* Planner output: a text of one or two lines
\* ------------------------------------------------------------------------
\* kind "FA": the line, stripped, starts with FINAL_ANSWER: ; "FC": the line
\* starts with FUNCTION_CALL: ; "TXT": anything else.  lead: the line has
\* leading whitespace.  embeds: FINAL_ANSWER: occurs inside the line, not at
\* its start.  ok: every parameter segment of a call has a separator.
FA(n, lead) == [kind |-> "FA", id |-> n, lead |-> lead, tool |-> "None",
                args |-> <<0, 0>>, ok |-> FALSE, embeds |-> FALSE]
FC(t, a, ok, embeds) == [kind |-> "FC", id |-> 0, lead |-> FALSE, tool |-> t,
                         args |-> a, ok |-> ok, embeds |-> embeds]
TXT(embeds) == [kind |-> "TXT", id |-> 0, lead |-> FALSE, tool |-> "None",
                args |-> <<0, 0>>, ok |-> FALSE, embeds |-> embeds]
NoLine == [kind |-> "none", id |-> 0, lead |-> FALSE, tool |-> "None",
           args |-> <<0, 0>>, ok |-> FALSE, embeds |-> FALSE]

CallPlans == {<<FC(t, a, TRUE, FALSE)>> : t \in Tools, a \in Args}
MalformedPlans == {<<FC("search", <<1, 1>>, FALSE, FALSE)>>, <<TXT(FALSE)>>}
TerminalPlans == {<<FA(1, FALSE)>>, <<FA(1, TRUE)>>, <<FA(1, FALSE), FA(2, FALSE)>>,
                  <<FA(2, FALSE), TXT(FALSE)>>, <<TXT(TRUE)>>,
                  <<FC("search", <<1, 1>>, TRUE, TRUE)>>}
Plans == CallPlans \cup MalformedPlans \cup TerminalPlans
NoPlan == <<>>

\* line.strip()
Strip(line) == [line EXCEPT !.lead = FALSE]

\* "FINAL_ANSWER:" in plan
MarkerIn(p) == \E i \in 1..Len(p) : p[i].kind = "FA" \/ p[i].embeds

\* [line for line in plan.splitlines() if line.strip().startswith("FINAL_ANSWER:")]
final_lines(p) == SelectSeq(p, LAMBDA l : Strip(l).kind = "FA")

\* parse_function_call(plan): the parsed call, or NoCall when it raises
ParsePlan(p) ==
    IF Len(p) >= 1 /\ p[1].kind = "FC" /\ ~p[1].lead /\ p[1].ok
    THEN <<p[1].tool, p[1].args>>
    ELSE NoCall

\* ------------------------------------------------------------------------
\* Dispatcher results
\* ------------------------------------------------------------------------
\* dict: the text decodes to a dict (result_obj); md: the dict has a
\* "markdown" entry; ok: the result carries what the tool is called for (a
\* sheet_id, a success message, a sheet link), as a key of the dict and in
\* the text that goes into the memory item.
Results == {r \in [dict : BOOLEAN, md : BOOLEAN, ok : BOOLEAN] : r.md => r.dict}

\* result_str is None exactly for a dict without a "markdown" entry
ResultStrIsNone(r) == r.dict /\ ~r.md

StepNames == {"search_completed", "sheet_created", "data_added", "link_retrieved"}

\* a gate that is always open
AllVerified_open(ws) == TRUE

\* all([...workflow_steps...])
AllVerified(ws) == \A s \in StepNames : ws[s]

\* [step for step, completed in self.workflow_steps.items() if not completed]
MissingSteps(ws) == {s \in StepNames : ~ws[s]}

ToolNames(trace) == {trace[i].tool : i \in 1..Len(trace)}


\* get_next_required_step, as the tool that serves the step
NextRequiredTool(ws) ==
    IF ~ws["search_completed"] THEN "search"
    ELSE IF ~ws["sheet_created"] THEN "create_google_sheet"
    ELSE IF ~ws["data_added"] THEN "add_data_to_sheet"
    ELSE IF ~ws["link_retrieved"] THEN "get_sheet_link"
    ELSE "None"

NarrowTools == {"search", "get_sheet_link"}

VARIABLES
    scenario,             \* which planner outputs are explored (see PlannerOutputs)
    max_steps,            \* agent_profile.max_steps
    pc,                   \* where run() is suspended
    step,                 \* loop index
    query,                \* current query text (its kind)
    plan,                 \* planner output of the step in progress or that ended the loop
    in_flight,            \* the call awaited at the dispatcher, or NoCall
    final_answer,         \* context.final_answer
    returned,             \* what run() returned
    workflow_steps,       \* self.workflow_steps
    created_sheet_id,     \* self._created_sheet_id (0 is None)
    pending_sheet_link,   \* self._pending_sheet_link is set
    memory_trace,         \* context.memory_trace
    step_retry_count,     \* step_retry_count[f"step_{step}"] (0 when absent)
    consecutive_failures,
    last_tool_call,
    repeated_calls,
    tool_call_attempts,   \* self._tool_call_attempts (0 when absent)
    outcome,              \* branch taken by the last iteration (history)
    iterations,           \* loop iterations started (history)
    dispatch_count,       \* Dispatcher.call invocations per fingerprint (history)
    open_attempts,        \* invocations per fingerprint since its last return (history)
    execute_attempts,     \* Dispatcher.call invocations at the current index (history)
    retry_peak,           \* largest value ever stored in step_retry_count (history)
    prev_proposal,        \* fingerprint proposed in the previous step, if any (history)
    identical_run,        \* consecutive steps proposing prev_proposal (history)
    phases,               \* phases performed so far, and plans that were calls (history)
    server_configs,       \* MultiMCP.server_configs
    tool_map,             \* MultiMCP.tool_map: the backend a name is bound to (0: no entry)
    scan,                 \* position of initialize() in server_configs
    initialized,          \* "running", "returned" or "raised": how far initialize() is
    raised,               \* backends whose discovery pass raised (history)
    clean_by,             \* latest backend that listed the name in a pass that did not raise (history)
    call,                 \* the dispatcher operation in progress or last finished
    open_clients,         \* clients and sessions made and not yet closed (history)
    parts,                \* param_parts of parse_function_call: <<key path, value>> pairs
    pos,                  \* parameters of parts handled so far
    args,                 \* args of parse_function_call: the leaves of the nested maps
    parse_status,         \* "parsing", "returned" or "raised"
    line,                 \* what the parsed line is like apart from its parameters
    part,                 \* the characters of one parameter segment
    cursor,               \* characters of part scanned so far (i of line 50)
    in_quotes,            \* in_quotes of the scan
    quote_char,           \* quote_char of the scan ("none" is None)
    split_pos,            \* split_pos of the scan, counted from 1 (0 is -1)
    scan_key,             \* key of the segment
    scan_val,             \* val of the segment
    scan_status,          \* "scanning", "split" or "raised"
    model_reply,          \* what the model answers to the prompt of generate_plan
    plan_status,          \* how far generate_plan is
    plan_result,          \* what generate_plan returned
    retry_max,            \* max_retries of _gemini_generate_with_retry
    attempt,              \* attempt, the index of its for loop
    model_calls,          \* calls of _gemini_generate so far (history)
    sleeps,               \* the delays slept so far (history)
    errors,               \* the errors _gemini_generate raised so far (history)
    retry_status          \* "running", "returned", "raised" or "fell_through"

vars == <<scenario, max_steps, pc, step, query, plan, in_flight, final_answer,
          returned, workflow_steps, created_sheet_id, pending_sheet_link,
          memory_trace, step_retry_count, consecutive_failures, last_tool_call,
          repeated_calls, tool_call_attempts, outcome, iterations, dispatch_count,
          open_attempts, execute_attempts, retry_peak, prev_proposal, identical_run,
          phases, server_configs, tool_map, scan, initialized, raised, clean_by, call,
          open_clients, parts, pos, args, parse_status, line, part, cursor, in_quotes,
          quote_char, split_pos, scan_key, scan_val, scan_status, model_reply,
          plan_status, plan_result, retry_max, attempt, model_calls, sleeps, errors,
          retry_status>>

\* the state of the dispatcher (core/session.py, MultiMCP)
dispatcher == <<server_configs, tool_map, scan, initialized, raised, clean_by, call,
                open_clients>>

\* the state of parse_function_call (modules/action.py)
parser == <<parts, pos, args, parse_status, line>>

\* the state of the scan for "=" in one segment (modules/action.py, 40-67)
scanner == <<part, cursor, in_quotes, quote_char, split_pos, scan_key, scan_val,
             scan_status>>

\* the state of generate_plan (modules/decision.py)
planner == <<model_reply, plan_status, plan_result>>

\* the state of _gemini_generate_with_retry (modules/model_manager.py)
retrier == <<retry_max, attempt, model_calls, sleeps, errors, retry_status>>

\* what run() reads and never assigns
config == <<scenario, max_steps, dispatcher, parser, scanner, planner, retrier>>

Answer(kind, text, tools) == [kind |-> kind, text |-> text, tools |-> tools]
NoAnswer == Answer("None", NoLine, {})
Query(kind, missing) == [kind |-> kind, missing |-> missing]

\* The planner (core/strategy.py) is an external collaborator.  "open": any
\* plan; "narrow": calls of two tools only; "guided": the call for the next
\* required step, a get_sheet_link call, or a plan that has the marker.
PlannerOutputs ==
    IF scenario = "open" THEN Plans
    ELSE IF scenario = "narrow"
    THEN {<<FC(t, <<1, 1>>, TRUE, FALSE)>> : t \in NarrowTools}
    ELSE {<<FC(t, <<1, 1>>, TRUE, FALSE)>> :
              t \in {NextRequiredTool(workflow_steps), "get_sheet_link"} \ {"None"}}
         \cup {<<FA(1, FALSE)>>, <<FA(1, FALSE), FA(2, FALSE)>>,
               <<FC("search", <<1, 1>>, TRUE, TRUE)>>}

LoopInit ==
    /\ pc = "start"
    /\ step = 0
    /\ query = Query("user_input", {})
    /\ plan = NoPlan
    /\ in_flight = NoCall
    /\ final_answer = NoAnswer
    /\ returned = NoAnswer
    /\ workflow_steps = [s \in StepNames |-> FALSE]
    /\ created_sheet_id = 0
    /\ pending_sheet_link = FALSE
    /\ memory_trace = <<>>
    /\ step_retry_count = 0
    /\ consecutive_failures = 0
    /\ last_tool_call = NoCall
    /\ repeated_calls = 0
    /\ tool_call_attempts = [f \in Fingerprints |-> 0]
    /\ outcome = "none"
    /\ iterations = 0
    /\ dispatch_count = [f \in Fingerprints |-> 0]
    /\ open_attempts = [f \in Fingerprints |-> 0]
    /\ execute_attempts = 0
    /\ retry_peak = 0
    /\ prev_proposal = NoCall
    /\ identical_run = 0
    /\ phases = [perceive |-> 0, decide |-> 0, calls |-> 0, execute |-> 0]

\* a session whose loop has no step to run
LoopIdle == scenario = "open" /\ max_steps = 0 /\ LoopInit

\* names the backends list, and a name no backend lists
ListedNames == {"a", "b"}
UnknownName == "zz"

\* tool_map.get(name) finds nothing
NoEntry == 0

\* a dispatcher operation: what was called, how far it is, the backend of the
\* entry it uses, the transports it opened, the invocations it made on them,
\* and the names it returned
Op(op, name, phase, backend, opened, invoked, names) ==
    [op |-> op, name |-> name, phase |-> phase, backend |-> backend,
     opened |-> opened, invoked |-> invoked, names |-> names]

NoOp == Op("none", "none", "idle", 0, 0, 0, {})

\* MultiMCP([]) as __init__ leaves it
DispatcherIdle ==
    /\ server_configs = <<>>
    /\ tool_map = [n \in ListedNames |-> NoEntry]
    /\ scan = 1
    /\ initialized = "scanning"
    /\ raised = {}
    /\ clean_by = [n \in ListedNames |-> 0]
    /\ call = NoOp
    /\ open_clients = 0

\* parse_function_call is not running
ParserIdle ==
    /\ parts = <<>>
    /\ pos = 0
    /\ args = {}
    /\ parse_status = "idle"
    /\ line = "none"

\* no segment is being scanned
ScannerIdle ==
    /\ part = <<>>
    /\ cursor = 0
    /\ in_quotes = FALSE
    /\ quote_char = "none"
    /\ split_pos = 0
    /\ scan_key = <<>>
    /\ scan_val = <<>>
    /\ scan_status = "idle"

\* generate_plan is not running
PlannerIdle ==
    /\ model_reply = [raises |-> FALSE, lines |-> <<>>]
    /\ plan_status = "idle"
    /\ plan_result = [kind |-> "none", lead |-> FALSE, at |-> 0]

\* _gemini_generate_with_retry is not running
RetrierIdle ==
    /\ retry_max = 0
    /\ attempt = 0
    /\ model_calls = 0
    /\ sleeps = <<>>
    /\ errors = <<>>
    /\ retry_status = "idle"

\* the session of run(): the dispatcher and the parser are modelled by
\* DispatcherSpec and ParserSpec
Init ==
    /\ \/ scenario = "open" /\ max_steps \in 0..MaxStepsBound
       \/ scenario = "narrow" /\ max_steps = NarrowSteps
       \/ scenario = "guided" /\ max_steps = GuidedSteps
    /\ LoopInit
    /\ DispatcherIdle
    /\ ParserIdle
    /\ ScannerIdle
    /\ PlannerIdle
    /\ RetrierIdle

\* ------------------------------------------------------------------------
\* Helpers translated from run()
\* ------------------------------------------------------------------------
\* a loop that runs the next iteration at the same index
NextIndex_same(s) == s

\* a loop in which a continue costs two indices
NextIndex_skip(s) == s + 2

\* a loop that starts over at the first index
NextIndex_restart(s) == 0

\* for step in range(max_steps): the index of the iteration after index s
NextIndex(s) == s + 1

\* a loop without a step budget
RangeHasNext_unbounded(s, m) == TRUE

\* for step in range(max_steps): there is an iteration after index s
RangeHasNext(s, m) == NextIndex(s) < m

\* a budget check that never finds the last index
LastStep_never(s, m) == FALSE

\* if step >= max_steps - 1
LastStep(s, m) == s >= m - 1

\* a cap that is tested one failure late
FailureCapReached_late(cf) == cf > max_consecutive_failures

\* if consecutive_failures >= max_consecutive_failures
FailureCapReached(cf) == cf >= max_consecutive_failures

\* if retry_count >= max_retries_per_step
RetriesExhausted(rc) == rc >= max_retries_per_step

\* a loop without the cap on the attempts of a fingerprint
AttemptsExceeded_never(count) == FALSE

\* a cap that lets one more attempt through
AttemptsExceeded_late(count) == count > max_tool_attempts + 1

\* if attempt_count > self._max_tool_attempts
AttemptsExceeded(count) == count > max_tool_attempts

\* if last_tool_call == current_call: repeated_calls += 1 ... else: reset.
\* Result: <<last_tool_call, repeated_calls, loop detected>>
LoopDetect(last, rep, cur) ==
    IF last = cur
    THEN <<last, rep + 1, rep + 1 >= RepeatLimit>>
    ELSE <<cur, 0, FALSE>>

\* the first terminal line instead of the last
LastOf_first(seq) == seq[1]

\* final_lines[-1]
LastOf(seq) == seq[Len(seq)]

InnerSites == {"parse", "attempts", "dispatch", "format"}

\* run() without the try block of line 344
EnclosingTry_outer_only(site) == "outer"

\* run() without the try block of line 143
EnclosingTry_inner_only(site) == IF site \in InnerSites THEN "inner" ELSE "none"

\* Which try block encloses the place where a call is made: the inner one
\* (line 344) or only the outer one (line 143)
EnclosingTry(site) == IF site \in InnerSites THEN "inner" ELSE "outer"

\* the "Task completed" default of the completion phase (line 813), which
\* leaves nothing for the "or" of the return statement to replace
FinalOrDefault(fa, trace) ==
    IF fa = NoAnswer THEN Answer("completed_default", NoLine, ToolNames(trace)) ELSE fa

\* an answer that carries the summary of the tools in the memory trace
Summary(kind, trace) == Answer(kind, NoLine, ToolNames(trace))

\* the answer built from the stored link when no terminal line can be extracted
SuccessAnswer == Answer("success", NoLine, {})

\* a memory that keeps only the newest item
add_memory_newest(trace, item) == <<item>>

\* context.add_memory(item): the item goes to the end of memory_trace
add_memory(trace, item) == Append(trace, item)

HasItem(trace, t, needMark) ==
    \E i \in 1..Len(trace) : trace[i].tool = t /\ (needMark => trace[i].mark)

\* the MemoryItem of a call: the text of a search item is always longer than
\* 10 characters; for the other tools mark says that the text has what the
\* verifier of the tool looks for
Item(t, r) == [tool |-> t, mark |-> IF IsSearchTool(t) THEN TRUE ELSE r.ok]

\* the item of the simulated create_google_sheet result carries the sheet_id
SimulatedItem(t) == [tool |-> t, mark |-> TRUE]

\* self._created_sheet_id after lines 530-545
SheetIdAfterVerify(t, r, sid, trace) ==
    IF ~IsCreateTool(t) THEN sid
    ELSE IF r.dict /\ r.ok THEN 1
    ELSE IF sid # 0 THEN sid
    ELSE IF HasItem(trace, t, TRUE) THEN 1
    ELSE 0

\* a verification that starts again from the flags of __init__
StepsAfterVerify_reset(t, r, ws, sid, link, trace) == [s \in StepNames |-> FALSE]

\* self.workflow_steps after the verification at lines 523-561
StepsAfterVerify(t, r, ws, sid, link, trace) ==
    IF IsSearchTool(t)
    THEN [ws EXCEPT !["search_completed"] = @ \/ HasItem(trace, t, TRUE)]
    ELSE IF IsCreateTool(t)
    THEN [ws EXCEPT !["sheet_created"] = @ \/ SheetIdAfterVerify(t, r, sid, trace) # 0]
    ELSE IF IsAddTool(t)
    THEN [ws EXCEPT !["data_added"] = @ \/ HasItem(trace, t, TRUE)]
    ELSE IF IsLinkTool(t)
    THEN [ws EXCEPT !["link_retrieved"] = @ \/ link \/ HasItem(trace, t, TRUE)]
    ELSE ws

\* sheet_link of lines 674-693 is non-empty
SheetLinkFound(t, r, sid) == IsLinkTool(t) /\ ((r.dict /\ r.ok) \/ sid # 0)

\* ------------------------------------------------------------------------
\* Control transfer
\* ------------------------------------------------------------------------
\* break, the entry of this index in step_retry_count being rc
Break(ans, oc, p, rc) ==
    /\ final_answer' = ans
    /\ outcome' = oc
    /\ plan' = p
    /\ pc' = "completion"
    /\ step_retry_count' = rc
    /\ UNCHANGED <<step, iterations, execute_attempts, query>>

\* continue, or the end of the loop body, having stored rc under the key of
\* this index: the next index, if range has one
Continue(q, oc, rc) ==
    /\ final_answer' = final_answer
    /\ outcome' = oc
    /\ query' = q
    /\ plan' = NoPlan
    /\ IF RangeHasNext(step, max_steps)
       THEN /\ pc' = "perceive"
            /\ step' = NextIndex(step)
            /\ iterations' = iterations + 1
            /\ execute_attempts' = IF NextIndex(step) = step THEN execute_attempts ELSE 0
            /\ step_retry_count' = IF NextIndex(step) = step THEN rc ELSE 0
       ELSE /\ pc' = "completion"
            /\ step_retry_count' = rc
            /\ UNCHANGED <<step, iterations, execute_attempts>>

Peak(a, b) == IF a > b THEN a ELSE b

\* except Exception as e (line 760), entered with the given counters and
\* trace; why names the failure in the history of outcomes
FailureHandler(rc0, cf, trace, p, why) ==
    /\ consecutive_failures' = cf + 1
    /\ retry_peak' = Peak(retry_peak, rc0 + 1)
    /\ IF FailureCapReached(cf + 1)
       THEN Break(Summary("abort", trace), "aborted", p, rc0 + 1)
       ELSE Continue(Query(IF rc0 + 1 < max_retries_per_step THEN "retry_error"
                                                              ELSE "advance_error", {}),
                     why, rc0 + 1)

\* an exception raised at the given site outside the inner try: except
\* Exception as e (line 799)
SessionFailed(site) ==
    IF EnclosingTry(site) = "outer"
    THEN /\ Break(Answer("session_failed", NoLine, {}), site, plan, step_retry_count)
         /\ returned' = returned
    ELSE /\ returned' = Answer("raised", NoLine, {})
         /\ pc' = "done"
         /\ outcome' = "raised"
         /\ UNCHANGED <<final_answer, step, iterations, execute_attempts, query, plan,
                        step_retry_count>>

\* an exception raised at the given site of the loop body: the handler of
\* the try block that encloses the site takes it
Raised(site, rc0, cf, trace, p, why) ==
    IF EnclosingTry(site) = "inner"
    THEN FailureHandler(rc0, cf, trace, p, why)
    ELSE /\ SessionFailed(site)
         /\ consecutive_failures' = cf
         /\ retry_peak' = retry_peak

NoProposal == prev_proposal' = NoCall /\ identical_run' = 0

Proposal(fp) ==
    /\ prev_proposal' = fp
    /\ identical_run' = IF prev_proposal = fp THEN identical_run + 1 ELSE 1

\* the planner returned plan p (line 272); executes says that the call of the
\* plan goes to the dispatcher (line 453)
Decided(p, executes) ==
    phases' = [phases EXCEPT !.decide = @ + 1,
                             !.calls = @ + (IF ParsePlan(p) # NoCall /\ ~MarkerIn(p)
                                            THEN 1 ELSE 0),
                             !.execute = @ + (IF executes THEN 1 ELSE 0)]

workflow == <<workflow_steps, created_sheet_id, pending_sheet_link, memory_trace>>
loop_state == <<last_tool_call, repeated_calls>>
calls == <<in_flight, tool_call_attempts, dispatch_count, open_attempts>>
proposals == <<prev_proposal, identical_run>>

\* The backends behind the dispatcher are external collaborators.  In the
\* "guided" scenario they answer with the payload the tool is called for;
\* otherwise with any payload.  (That call_tool raises is DispatchRaises.)
DispatcherResults ==
    IF scenario = "guided"
    THEN {[dict |-> TRUE, md |-> TRUE, ok |-> TRUE]}
    ELSE Results

\* a perception that may hand back the text of the model
PerceptionOutputs_with_text == {"parsed", "fallback", "final_answer_string"}

\* extract_perception (modules/perception.py) returns a PerceptionResult on
\* every path: the parsed answer of the model, or the fallback built in its
\* except clause
PerceptionOutputs == {"parsed", "fallback"}

\* ------------------------------------------------------------------------
\* Actions: run() from one await to the next
\* ------------------------------------------------------------------------
\* lines 143-168: the locals, and the first index if range(max_steps) has one
Start ==
    /\ pc = "start"
    /\ IF 0 < max_steps
       THEN pc' = "perceive" /\ iterations' = 1
       ELSE pc' = "completion" /\ iterations' = 0
    /\ UNCHANGED <<config, phases, step, query, plan, final_answer, returned, outcome,
                   execute_attempts, step_retry_count, retry_peak, consecutive_failures,
                   workflow, loop_state, calls, proposals>>

\* lines 175-238: perception returned
Perceive ==
    /\ pc = "perceive"
    /\ \E out \in PerceptionOutputs :
          IF out = "final_answer_string"
          THEN Break(Answer("perception", FA(1, FALSE), {}), "perception_final", plan,
                     step_retry_count)
          ELSE IF out = "other_string"
          THEN Break(Answer("no_result", NoLine, {}), "perception_none", plan,
                     step_retry_count)
          ELSE /\ pc' = "retrieve"
               /\ UNCHANGED <<step, query, plan, final_answer, outcome, iterations,
                              execute_attempts, step_retry_count>>
    /\ UNCHANGED <<config, returned, retry_peak, consecutive_failures, workflow,
                   loop_state, calls, proposals>>
    /\ phases' = [phases EXCEPT !.perceive = @ + 1]

\* lines 245-267: memory.retrieve returned
Retrieve ==
    /\ pc = "retrieve"
    /\ pc' = "decide"
    /\ UNCHANGED <<config, phases, step, query, plan, final_answer, returned, outcome, iterations,
                   execute_attempts, step_retry_count, retry_peak, consecutive_failures,
                   workflow, loop_state, calls, proposals>>

\* memory.retrieve raised
RetrieveRaises ==
    /\ pc = "retrieve"
    /\ SessionFailed("retrieve_raised")
    /\ UNCHANGED <<config, phases, retry_peak, consecutive_failures, workflow, loop_state, calls,
                   proposals>>

\* decide_next_action raised
PlannerRaises ==
    /\ pc = "decide"
    /\ SessionFailed("planner_raised")
    /\ UNCHANGED <<config, phases, retry_peak, consecutive_failures, workflow, loop_state, calls,
                   proposals>>

\* lines 282-305: the plan has the marker and a required step is missing
DecideReject(p) ==
    /\ pc = "decide"
    /\ MarkerIn(p)
    /\ ~AllVerified(workflow_steps)
    /\ Continue(Query("corrective", MissingSteps(workflow_steps)), "rejected",
                step_retry_count)
    /\ NoProposal
    /\ UNCHANGED <<config, returned, retry_peak, consecutive_failures, workflow,
                   loop_state, calls>>
    /\ Decided(p, FALSE)

\* lines 282-327: the plan has the marker and every required step is verified
DecideAccept(p) ==
    /\ pc = "decide"
    /\ MarkerIn(p)
    /\ AllVerified(workflow_steps)
    /\ Break(IF final_lines(p) # <<>>
             THEN Answer("planner", Strip(LastOf(final_lines(p))), {})
             ELSE SuccessAnswer,
             "accepted", p, step_retry_count)
    /\ NoProposal
    /\ UNCHANGED <<config, returned, retry_peak, consecutive_failures, workflow,
                   loop_state, calls>>
    /\ Decided(p, FALSE)

\* lines 330-336: no marker, last index
DecideBudget(p) ==
    /\ pc = "decide"
    /\ ~MarkerIn(p)
    /\ LastStep(step, max_steps)
    /\ Break(Summary("partial", memory_trace), "budget", p, step_retry_count)
    /\ NoProposal
    /\ UNCHANGED <<config, returned, retry_peak, consecutive_failures, workflow,
                   loop_state, calls>>
    /\ Decided(p, FALSE)

\* line 345 raises: parse_function_call rejects the plan
DecideParseError(p) ==
    /\ pc = "decide"
    /\ ~MarkerIn(p)
    /\ ~LastStep(step, max_steps)
    /\ ParsePlan(p) = NoCall
    /\ Raised("parse", step_retry_count, consecutive_failures, memory_trace, p,
              "parse_failed")
    /\ NoProposal
    /\ UNCHANGED <<config, returned, workflow, loop_state, calls>>
    /\ Decided(p, FALSE)

\* the plan passes the gate and the budget check and parse_function_call
\* returns a call
Parsed(p) ==
    /\ pc = "decide"
    /\ ~MarkerIn(p)
    /\ ~LastStep(step, max_steps)
    /\ ParsePlan(p) # NoCall

\* current_call of the plan
CallFp(p) == Fingerprint(ParsePlan(p)[1], ParsePlan(p)[2])

\* lines 368-380 applied to the plan
Detect(p) == LoopDetect(last_tool_call, repeated_calls, CallFp(p))

\* a loop that takes every call for a repeated sheet creation
Duplicate_any(p) == TRUE

\* lines 386-387: a create_google_sheet call while a sheet id is stored
Duplicate(p) == IsCreateTool(ParsePlan(p)[1]) /\ created_sheet_id # 0

\* lines 368-377: the call repeats the last one for the second time in a row
DecideLoopDetected(p) ==
    /\ Parsed(p)
    /\ ~RetriesExhausted(step_retry_count)
    /\ Detect(p)[3]
    /\ last_tool_call' = Detect(p)[1]
    /\ repeated_calls' = Detect(p)[2]
    /\ Break(Summary("loop", memory_trace), "loop_detected", p, step_retry_count)
    /\ Proposal(CallFp(p))
    /\ UNCHANGED <<config, returned, retry_peak, consecutive_failures, workflow, calls>>
    /\ Decided(p, FALSE)

\* lines 386-422: the result of the call is simulated from the stored sheet id
DecideDuplicateSheet(p) ==
    /\ Parsed(p)
    /\ ~RetriesExhausted(step_retry_count)
    /\ ~Detect(p)[3]
    /\ Duplicate(p)
    /\ last_tool_call' = Detect(p)[1]
    /\ repeated_calls' = Detect(p)[2]
    /\ memory_trace' = add_memory(memory_trace, SimulatedItem(ParsePlan(p)[1]))
    /\ Continue(Query("duplicate_sheet", {}), "simulated", 0)
    /\ Proposal(CallFp(p))
    /\ UNCHANGED <<config, returned, retry_peak, consecutive_failures, workflow_steps,
                   created_sheet_id, pending_sheet_link, calls>>
    /\ Decided(p, FALSE)

\* The call is refused before the dispatcher: lines 351-365 (the retries of
\* this index are used up) or lines 425-436 (the attempts of the fingerprint
\* are used up, which raises into the handler at line 760)
DecideCapExceeded(p) ==
    /\ Parsed(p)
    /\ IF RetriesExhausted(step_retry_count)
       THEN /\ consecutive_failures' = consecutive_failures + 1
            /\ IF FailureCapReached(consecutive_failures + 1)
               THEN Break(Summary("abort", memory_trace), "aborted", p, step_retry_count)
               ELSE Continue(query, "skipped", step_retry_count)
            /\ NoProposal
            /\ UNCHANGED <<retry_peak, loop_state, tool_call_attempts>>
       ELSE /\ ~Detect(p)[3]
            /\ ~Duplicate(p)
            /\ AttemptsExceeded(tool_call_attempts[CallFp(p)] + 1)
            /\ last_tool_call' = Detect(p)[1]
            /\ repeated_calls' = Detect(p)[2]
            /\ tool_call_attempts' =
                  [tool_call_attempts EXCEPT ![CallFp(p)] = @ + 1]
            /\ FailureHandler(step_retry_count, consecutive_failures, memory_trace, p,
                              "blocked")
            /\ Proposal(CallFp(p))
    /\ UNCHANGED <<config, returned, workflow, in_flight, dispatch_count, open_attempts>>
    /\ Decided(p, FALSE)

\* lines 368-453: the call goes to the dispatcher
DecideDispatch(p) ==
    /\ Parsed(p)
    /\ ~RetriesExhausted(step_retry_count)
    /\ ~Detect(p)[3]
    /\ ~Duplicate(p)
    /\ ~AttemptsExceeded(tool_call_attempts[CallFp(p)] + 1)
    /\ last_tool_call' = Detect(p)[1]
    /\ repeated_calls' = Detect(p)[2]
    /\ tool_call_attempts' = [tool_call_attempts EXCEPT ![CallFp(p)] = @ + 1]
    /\ in_flight' = ParsePlan(p)
    /\ plan' = p
    /\ pc' = "dispatch"
    /\ dispatch_count' = [dispatch_count EXCEPT ![CallFp(p)] = @ + 1]
    /\ open_attempts' = [open_attempts EXCEPT ![CallFp(p)] = @ + 1]
    /\ execute_attempts' = execute_attempts + 1
    /\ outcome' = "dispatched"
    /\ Proposal(CallFp(p))
    /\ UNCHANGED <<config, step, query, final_answer, returned, iterations,
                   step_retry_count, retry_peak, consecutive_failures, workflow>>
    /\ Decided(p, TRUE)

\* ------------------------------------------------------------------------
\* The dispatcher answers
\* ------------------------------------------------------------------------
FlightFp == Fingerprint(in_flight[1], in_flight[2])

\* lines 463-495: call_tool raised; every path of the handler raises again
DispatchRaises ==
    /\ pc = "dispatch"
    /\ in_flight' = NoCall
    /\ Raised("dispatch", step_retry_count, consecutive_failures, memory_trace, plan,
              "call_failed")
    /\ UNCHANGED <<config, phases, returned, workflow, loop_state, tool_call_attempts,
                   dispatch_count, open_attempts, proposals>>

\* workflow_steps after lines 523-561
VerifiedSteps(r) ==
    StepsAfterVerify(in_flight[1], r, workflow_steps, created_sheet_id,
                     pending_sheet_link, memory_trace)

\* _created_sheet_id after lines 523-561
VerifiedSheetId(r) == SheetIdAfterVerify(in_flight[1], r, created_sheet_id, memory_trace)

\* lines 453-566, common to every return of call_tool
Returned(r) ==
    /\ pc = "dispatch"
    /\ in_flight' = NoCall
    /\ tool_call_attempts' = [tool_call_attempts EXCEPT ![FlightFp] = 0]
    /\ open_attempts' = [open_attempts EXCEPT ![FlightFp] = 0]
    /\ created_sheet_id' = VerifiedSheetId(r)
    /\ UNCHANGED <<config, phases, returned, dispatch_count, last_tool_call, proposals>>

\* lines 597-698: memory item, counters, link bookkeeping
Recorded(r) ==
    /\ memory_trace' = add_memory(memory_trace, Item(in_flight[1], r))
    /\ repeated_calls' = 0
    /\ pending_sheet_link' =
          (pending_sheet_link \/ SheetLinkFound(in_flight[1], r, VerifiedSheetId(r)))
    /\ workflow_steps' =
          [VerifiedSteps(r) EXCEPT !["link_retrieved"] =
              @ \/ SheetLinkFound(in_flight[1], r, VerifiedSheetId(r))]

\* lines 572-595: the verification completes the workflow
DispatchCompletes(r) ==
    /\ Returned(r)
    /\ AllVerified(VerifiedSteps(r))
    /\ workflow_steps' = VerifiedSteps(r)
    /\ Break(SuccessAnswer, "completed", plan, 0)
    /\ UNCHANGED <<memory_trace, pending_sheet_link, repeated_calls,
                   consecutive_failures, retry_peak>>

\* lines 597-759: the result is recorded and the next query is built
DispatchSucceeds(r) ==
    /\ Returned(r)
    /\ ~AllVerified(VerifiedSteps(r))
    /\ ~ResultStrIsNone(r)
    /\ Recorded(r)
    /\ consecutive_failures' = 0
    /\ Continue(Query("guidance", {}), "succeeded", 0)
    /\ UNCHANGED retry_peak

\* lines 597-715 and 760: result_str is None, so result_str[:1000] raises
\* after the result was recorded and the counters were reset
DispatchFormatError(r) ==
    /\ Returned(r)
    /\ ~AllVerified(VerifiedSteps(r))
    /\ ResultStrIsNone(r)
    /\ Recorded(r)
    /\ FailureHandler(0, 0, add_memory(memory_trace, Item(in_flight[1], r)), plan,
                      "format_failed")

\* lines 813-831
Finalize ==
    /\ pc = "completion"
    /\ pc' = "done"
    /\ final_answer' = FinalOrDefault(final_answer, memory_trace)
    /\ returned' = FinalOrDefault(final_answer, memory_trace)
    /\ UNCHANGED <<config, phases, step, query, plan, outcome, iterations, execute_attempts,
                   step_retry_count, retry_peak, consecutive_failures, workflow,
                   loop_state, calls, proposals>>

Next ==
    \/ Start
    \/ Perceive
    \/ Retrieve
    \/ RetrieveRaises
    \/ PlannerRaises
    \/ \E p \in PlannerOutputs : DecideReject(p)
    \/ \E p \in PlannerOutputs : DecideAccept(p)
    \/ \E p \in PlannerOutputs : DecideBudget(p)
    \/ \E p \in PlannerOutputs : DecideParseError(p)
    \/ \E p \in PlannerOutputs : DecideLoopDetected(p)
    \/ \E p \in PlannerOutputs : DecideDuplicateSheet(p)
    \/ \E p \in PlannerOutputs : DecideCapExceeded(p)
    \/ \E p \in PlannerOutputs : DecideDispatch(p)
    \/ DispatchRaises
    \/ \E r \in DispatcherResults : DispatchCompletes(r)
    \/ \E r \in DispatcherResults : DispatchSucceeds(r)
    \/ \E r \in DispatcherResults : DispatchFormatError(r)
    \/ Finalize

Spec == Init /\ [][Next]_vars

\* the variables of run()
loop == <<scenario, max_steps, pc, step, query, plan, in_flight, final_answer,
          returned, workflow_steps, created_sheet_id, pending_sheet_link,
          memory_trace, step_retry_count, consecutive_failures, last_tool_call,
          repeated_calls, tool_call_attempts, outcome, iterations, dispatch_count,
          open_attempts, execute_attempts, retry_peak, prev_proposal, identical_run,
          phases>>

\* what the operations of the dispatcher, of parse_function_call and of its
\* scan for "=" have no access to
beside_dispatcher == <<loop, parser, scanner, planner, retrier>>
beside_parser == <<loop, dispatcher, scanner, planner, retrier>>
beside_scanner == <<loop, dispatcher, parser, planner, retrier>>

\* ------------------------------------------------------------------------
\* The dispatcher: MultiMCP (core/session.py)
\* ------------------------------------------------------------------------
\* a configured backend: its transport, and whether it has a base_url
BackendConfigs ==
    {[transport |-> "stdio", base_url |-> FALSE],
     [transport |-> "sse", base_url |-> TRUE],
     [transport |-> "sse", base_url |-> FALSE]}

Configs == UNION {[1..n -> BackendConfigs] : n \in 1..MaxBackends}

\* the well-formed names of a tool list, in the order of the list
Listings ==
    {<<>>} \cup {<<n>> : n \in ListedNames}
           \cup {<<n, m>> : <<n, m>> \in {q \in ListedNames \X ListedNames : q[1] # q[2]}}

Names(tools) == {tools[i] : i \in 1..Len(tools)}

\* Where a discovery pass can raise.  "connect": building the parameters or
\* entering the transport (lines 168-172, 191-197); "handshake":
\* session.initialize (202); "list": session.list_tools (204; the sse client
\* swallows its own listing errors and returns no tools, lines 49-54);
\* "listing": the names are read for the print (176, 205), which fails for an
\* entry without a name; "registration": tool_map[tool.name] = ... (178,
\* 207), which fails for an entry whose name cannot be a key; "teardown":
\* sse_client.close() (185) or leaving the ClientSession (200);
\* "transport_teardown": leaving stdio_client (197)
Stages ==
    {"connect", "handshake", "list", "listing", "registration", "teardown",
     "transport_teardown"}

StagesOf(cfg) ==
    IF cfg.transport = "sse"
    THEN {"connect", "listing", "registration", "teardown"}
    ELSE Stages

\* initialize() with the inner handlers only
CaughtBy_inner_only(stage) ==
    IF stage \in {"connect", "transport_teardown"} THEN "none" ELSE "inner"

\* the except clause that catches what the stage raises: the inner one (186,
\* 212) or the one around the whole pass (214)
CaughtBy(stage) ==
    IF stage \in {"connect", "transport_teardown"} THEN "outer" ELSE "inner"

\* the entries of the list that the registration loop reached before the
\* pass raised at the stage, k of them when it raised inside the loop
RegisteredBefore(tools, stage, k) ==
    IF stage \in {"teardown", "transport_teardown"} THEN tools
    ELSE IF stage = "registration" THEN SubSeq(tools, 1, k)
    ELSE <<>>

\* self.tool_map[tool.name] = {"config": config, ...}
Register(tm, name, b) == [tm EXCEPT ![name] = b]

\* for tool in tools: self.tool_map[tool.name] = ...
RECURSIVE RegisterAll(_, _, _)
RegisterAll(tm, tools, b) ==
    IF tools = <<>> THEN tm
    ELSE RegisterAll(Register(tm, Head(tools), b), Tail(tools), b)

\* for config in self.server_configs: the pass of the next config, if any
NextConfig ==
    /\ scan' = scan + 1
    /\ initialized' = IF scan + 1 > Len(server_configs) THEN "returned" ELSE "scanning"

Scanning == initialized = "scanning" /\ scan <= Len(server_configs)

\* lines 160-165: an sse config without base_url is skipped
DiscoverSkipped ==
    /\ Scanning
    /\ server_configs[scan].transport = "sse"
    /\ ~server_configs[scan].base_url
    /\ NextConfig
    /\ UNCHANGED <<beside_dispatcher, server_configs, tool_map, raised, clean_by, call,
                   open_clients>>

Reachable(cfg) == cfg.transport = "stdio" \/ cfg.base_url

\* lines 167-185, 191-211: the backend lists the tools, all are registered
Discovered(tools) ==
    /\ Scanning
    /\ Reachable(server_configs[scan])
    /\ tool_map' = RegisterAll(tool_map, tools, scan)
    /\ clean_by' = [n \in ListedNames |-> IF n \in Names(tools) THEN scan ELSE clean_by[n]]
    /\ NextConfig
    /\ UNCHANGED <<beside_dispatcher, server_configs, raised, call, open_clients>>

\* The client or session that a discovery pass made is still open when the
\* pass raised at the stage.  stdio: the two async with blocks (197, 200)
\* close on every exit.  sse: sse_client.close() (185) is the last statement
\* of the try block, so an exception of line 176 or of the loop at 177-184
\* skips it; at "connect" no client exists yet, and at "teardown" close() was
\* called
LeftOpen(cfg, stage) == cfg.transport = "sse" /\ stage \in {"listing", "registration"}

\* the pass raises at the stage, after k registrations if inside the loop
DiscoverRaises(tools, stage, k) ==
    /\ Scanning
    /\ Reachable(server_configs[scan])
    /\ stage \in StagesOf(server_configs[scan])
    /\ k \in 0..Len(tools)
    /\ stage # "registration" => k = 0
    /\ stage \in {"connect", "handshake", "list"} => tools = <<>>
    /\ tool_map' = RegisterAll(tool_map, RegisteredBefore(tools, stage, k), scan)
    /\ raised' = raised \cup {scan}
    /\ open_clients' = open_clients + (IF LeftOpen(server_configs[scan], stage) THEN 1 ELSE 0)
    /\ IF CaughtBy(stage) = "none"
       THEN initialized' = "raised" /\ scan' = scan
       ELSE NextConfig
    /\ UNCHANGED <<beside_dispatcher, server_configs, clean_by, call>>

\* entry = self.tool_map.get(tool_name)
Lookup(tm, name) == IF name \in DOMAIN tm THEN tm[name] ELSE NoEntry

\* a dispatcher that goes to the transport whatever the lookup finds
OpensTransport_always(entry) == TRUE

\* if not entry: raise ValueError(...), else the transport of the entry
OpensTransport(entry) == entry # NoEntry

\* a client that tries a failed invocation once more
AfterTransportError_retry(invoked) == IF invoked < 2 THEN "retry" ELSE "propagate"

\* except Exception: raise (lines 95-97); the stdio branch has no handler
AfterTransportError(invoked) == "propagate"

\* a dispatcher that drops the entry of the tool it was asked for
ToolMapAfterCall_evict(tm, name) ==
    [n \in DOMAIN tm |-> IF n = name THEN NoEntry ELSE tm[n]]

\* tool_map after call_tool: no line of it assigns tool_map
ToolMapAfterCall(tm, name) == tm

Finished == {"idle", "returned", "raised", "not_found"}

CallNames == ListedNames \cup {UnknownName}

\* lines 218-241: the lookup, and for an entry the new client or subprocess
CallTool(name) ==
    /\ initialized = "returned"
    /\ call.phase \in Finished
    /\ IF OpensTransport(Lookup(tool_map, name))
       THEN /\ call' = Op("call_tool", name, "opened", Lookup(tool_map, name), 1, 0, {})
            /\ tool_map' = tool_map
            /\ open_clients' = open_clients + 1
       ELSE /\ call' = Op("call_tool", name, "not_found", 0, 0, 0, {})
            /\ tool_map' = ToolMapAfterCall(tool_map, name)
            /\ open_clients' = open_clients
    /\ UNCHANGED <<beside_dispatcher, server_configs, scan, initialized, raised, clean_by>>

\* the clients closed when call_tool is left, by return or by exception: the
\* finally clause of the sse branch (229-230), the async with blocks of the
\* stdio branch (240-241)
ClosedAtExit(transport) == 1

\* the transport of the entry that the call in progress uses
CallTransport == server_configs[call.backend].transport

\* line 243 raises: the session of the stdio subprocess does not initialize
CallHandshakeRaises ==
    /\ call.phase = "opened"
    /\ call.backend # NoEntry
    /\ server_configs[call.backend].transport = "stdio"
    /\ call' = [call EXCEPT !.phase = "raised"]
    /\ open_clients' = open_clients - ClosedAtExit(CallTransport)
    /\ tool_map' = ToolMapAfterCall(tool_map, call.name)
    /\ UNCHANGED <<beside_dispatcher, server_configs, scan, initialized, raised, clean_by>>

\* lines 228, 244: the tool is invoked on the transport
CallInvoke ==
    /\ call.phase = "opened"
    /\ call' = [call EXCEPT !.phase = "invoking", !.invoked = @ + 1]
    /\ UNCHANGED <<beside_dispatcher, server_configs, tool_map, scan, initialized, raised,
                   clean_by, open_clients>>

\* the invocation returns, and call_tool returns its result
CallReturns ==
    /\ call.phase = "invoking"
    /\ call' = [call EXCEPT !.phase = "returned"]
    /\ tool_map' = ToolMapAfterCall(tool_map, call.name)
    /\ open_clients' = open_clients - ClosedAtExit(CallTransport)
    /\ UNCHANGED <<beside_dispatcher, server_configs, scan, initialized, raised, clean_by>>

\* the invocation raises
CallRaises ==
    /\ call.phase = "invoking"
    /\ IF AfterTransportError(call.invoked) = "retry"
       THEN /\ call' = [call EXCEPT !.invoked = @ + 1]
            /\ tool_map' = tool_map
            /\ open_clients' = open_clients
       ELSE /\ call' = [call EXCEPT !.phase = "raised"]
            /\ tool_map' = ToolMapAfterCall(tool_map, call.name)
            /\ open_clients' = open_clients - ClosedAtExit(CallTransport)
    /\ UNCHANGED <<beside_dispatcher, server_configs, scan, initialized, raised, clean_by>>

\* lines 246-247
ListAllTools ==
    /\ initialized = "returned"
    /\ call.phase \in Finished
    /\ call' = Op("list_all_tools", "none", "returned", 0, 0, 0,
                  {n \in DOMAIN tool_map : tool_map[n] # NoEntry})
    /\ UNCHANGED <<beside_dispatcher, server_configs, tool_map, scan, initialized, raised,
                   clean_by, open_clients>>

\* lines 249-250
GetAllTools ==
    /\ initialized = "returned"
    /\ call.phase \in Finished
    /\ call' = Op("get_all_tools", "none", "returned", 0, 0, 0,
                  {n \in DOMAIN tool_map : tool_map[n] # NoEntry})
    /\ UNCHANGED <<beside_dispatcher, server_configs, tool_map, scan, initialized, raised,
                   clean_by, open_clients>>

DispatcherInit ==
    /\ LoopIdle
    /\ ParserIdle
    /\ ScannerIdle
    /\ PlannerIdle
    /\ RetrierIdle
    /\ server_configs \in Configs
    /\ tool_map = [n \in ListedNames |-> NoEntry]
    /\ scan = 1
    /\ initialized = "scanning"
    /\ raised = {}
    /\ clean_by = [n \in ListedNames |-> 0]
    /\ call = NoOp
    /\ open_clients = 0

DispatcherNext ==
    \/ DiscoverSkipped
    \/ \E tools \in Listings : Discovered(tools)
    \/ \E tools \in Listings, stage \in Stages :
          \E k \in 0..Len(tools) : DiscoverRaises(tools, stage, k)
    \/ \E name \in CallNames : CallTool(name)
    \/ CallHandshakeRaises
    \/ CallInvoke
    \/ CallReturns
    \/ CallRaises
    \/ ListAllTools
    \/ GetAllTools

DispatcherSpec == DispatcherInit /\ [][DispatcherNext]_vars

\* ------------------------------------------------------------------------
\* parse_function_call (modules/action.py), lines 38-100: the parameters
\* ------------------------------------------------------------------------
\* A parameter is the list of segments of its key, key.split("."), and its
\* parsed value, here the position of the parameter, so that the values of
\* two parameters differ.  NoEquals stands for a part in which the scan of
\* lines 45-65 finds no "=" (see ScanSpec).  The nested maps of args are kept
\* as their set of leaves [path, val].
Keys == {"input", "data"}

\* What the line is like apart from its parameters: it lacks the marker, or
\* it names add_data_to_sheet, or another tool.  In a "sheet_flat" line the
\* value of a parameter is a list that has elements and whose first element
\* has no length, as [1, 2]; in a "sheet_rows" line it is a list of rows.
Lines == {"no_marker", "other_tool", "sheet_rows", "sheet_flat"}
KeyPaths == UNION {[1..n -> Keys] : n \in 1..MaxDepth}
NoEquals == <<"no_equals">>
Param(key, val) == [key |-> key, val |-> val]
Leaf(path, val) == [path |-> path, val |-> val]

\* the parameter lists of n parts
ParamLists(n) ==
    {[i \in 1..n |-> Param(f[i], i)] : f \in [1..n -> KeyPaths \cup {NoEquals}]}

\* sequence q is an initial part of sequence path, or path itself
StartsWith(path, q) == Len(q) <= Len(path) /\ SubSeq(path, 1, Len(q)) = q

\* the value at the path is not a map
IsScalar(tree, q) == \E l \in tree : l.path = q

\* current[k] = {}: a fresh map in place of whatever the key holds
setdefault_fresh(tree, q) == {l \in tree : ~StartsWith(l.path, q)}

\* current.setdefault(k, {}): what the key holds stays as it is, a missing
\* key gets an empty map (which has no leaf)
setdefault(tree, q) == tree

\* for k in keys[:-1]: current = current.setdefault(k, {}), from segment i on
RECURSIVE Descend(_, _, _)
Descend(tree, path, i) ==
    IF i > Len(path) - 1 THEN tree
    ELSE Descend(setdefault(tree, SubSeq(path, 1, i)), path, i + 1)

\* the walk reaches a value that is not a map, so that the next setdefault
\* (AttributeError) or the item assignment (TypeError) raises
Blocked(tree, path) ==
    \E i \in 1..(Len(path) - 1) : IsScalar(tree, SubSeq(path, 1, i))

\* current[keys[-1]] = parsed_val: the value replaces what the key held
Assign(tree, path, val) ==
    {l \in Descend(tree, path, 1) : ~StartsWith(l.path, path)} \cup {Leaf(path, val)}

Parsing == parse_status = "parsing" /\ line # "no_marker" /\ pos < Len(parts)

\* lines 93-97, the logging of add_data_to_sheet: args["input"].get("data")
\* raises AttributeError when input is not a map, and len(data[0]) raises
\* TypeError when data is a list whose first element has no length
LoggingRaises(tree, l) ==
    /\ l \in {"sheet_rows", "sheet_flat"}
    /\ \/ IsScalar(tree, <<"input">>)
       \/ l = "sheet_flat" /\ IsScalar(tree, <<"input", "data">>)

\* lines 31-32: the line does not start with the marker, ValueError
ParseNoMarker ==
    /\ parse_status = "parsing"
    /\ line = "no_marker"
    /\ parse_status' = "raised"
    /\ UNCHANGED <<beside_parser, line, parts, pos, args>>

\* lines 39-90 for one parameter
ParseParam ==
    /\ Parsing
    /\ parts[pos + 1].key # NoEquals
    /\ ~Blocked(args, parts[pos + 1].key)
    /\ args' = Assign(args, parts[pos + 1].key, parts[pos + 1].val)
    /\ pos' = pos + 1
    /\ UNCHANGED <<beside_parser, line, parts, parse_status>>

\* lines 40-41 raise ValueError, or lines 88-90 raise: the except clause
\* (102-105) logs and raises again
ParseParamRaises ==
    /\ Parsing
    /\ parts[pos + 1].key = NoEquals \/ Blocked(args, parts[pos + 1].key)
    /\ parse_status' = "raised"
    /\ UNCHANGED <<beside_parser, line, parts, pos, args>>

\* lines 93-97 raise after the last parameter
ParseLoggingRaises ==
    /\ parse_status = "parsing"
    /\ line # "no_marker"
    /\ pos = Len(parts)
    /\ LoggingRaises(args, line)
    /\ parse_status' = "raised"
    /\ UNCHANGED <<beside_parser, line, parts, pos, args>>

\* lines 92-100: return tool_name, args
ParseReturns ==
    /\ parse_status = "parsing"
    /\ line # "no_marker"
    /\ pos = Len(parts)
    /\ ~LoggingRaises(args, line)
    /\ parse_status' = "returned"
    /\ UNCHANGED <<beside_parser, line, parts, pos, args>>

ParserInit ==
    /\ LoopIdle
    /\ DispatcherIdle
    /\ ScannerIdle
    /\ PlannerIdle
    /\ RetrierIdle
    /\ line \in Lines
    /\ IF line = "no_marker"
       THEN parts = <<>>
       ELSE \E n \in 0..MaxParts : parts \in ParamLists(n)
    /\ pos = 0
    /\ args = {}
    /\ parse_status = "parsing"

ParserNext ==
    \/ ParseNoMarker
    \/ ParseParam
    \/ ParseParamRaises
    \/ ParseLoggingRaises
    \/ ParseReturns

ParserSpec == ParserInit /\ [][ParserNext]_vars

\* ------------------------------------------------------------------------
\* parse_function_call (modules/action.py), lines 40-67: key and value of one
\* segment
\* ------------------------------------------------------------------------
\* A segment is a sequence of characters: the double quote, the single quote,
\* the backslash, "=", the blank, and "x" for any other character.
Chars == {"dq", "sq", "bs", "eq", "sp", "x"}

IsQuote(ch) == ch \in {"dq", "sq"}

\* str.strip() of a sequence of characters
RECURSIVE lstrip(_)
lstrip(str) == IF str # <<>> /\ Head(str) = "sp" THEN lstrip(Tail(str)) ELSE str

RECURSIVE rstrip(_)
rstrip(str) ==
    IF str # <<>> /\ str[Len(str)] = "sp"
    THEN rstrip(SubSeq(str, 1, Len(str) - 1))
    ELSE str

strip(str) == rstrip(lstrip(str))

\* the segments of n characters: what p.strip() (line 35) can give
Segments(n) == {str \in [1..n -> Chars] : strip(str) = str}

\* line 51: char in ['"', "'"] and (i == 0 or part[i-1] != backslash)
IsDelimiter(str, i) ==
    IsQuote(str[i]) /\ (IF i = 1 THEN TRUE ELSE str[i - 1] # "bs")

\* every "=" is the separator, quoted or not
Separates_any(str, i, quoted) == str[i] = "eq"

\* line 58: char == '=' and not in_quotes and split_pos == -1 (the loop ends
\* at the first split, so split_pos is -1 whenever a character is looked at)
Separates(str, i, quoted) == ~IsDelimiter(str, i) /\ str[i] = "eq" /\ ~quoted

AtChar == scan_status = "scanning" /\ cursor < Len(part)

HasEquals(str) == \E i \in 1..Len(str) : str[i] = "eq"

\* lines 40-41: "=" not in part, ValueError
ScanNoEquals ==
    /\ scan_status = "scanning"
    /\ cursor = 0
    /\ ~HasEquals(part)
    /\ scan_status' = "raised"
    /\ UNCHANGED <<beside_scanner, part, cursor, in_quotes, quote_char,
                   split_pos, scan_key, scan_val>>

\* lines 51-57: a quote that no backslash precedes opens a span, or closes
\* the span that the same quote opened
ScanQuote ==
    /\ AtChar
    /\ HasEquals(part)
    /\ IsDelimiter(part, cursor + 1)
    /\ IF ~in_quotes
       THEN in_quotes' = TRUE /\ quote_char' = part[cursor + 1]
       ELSE IF part[cursor + 1] = quote_char
       THEN in_quotes' = FALSE /\ quote_char' = "none"
       ELSE UNCHANGED <<in_quotes, quote_char>>
    /\ cursor' = cursor + 1
    /\ UNCHANGED <<beside_scanner, part, split_pos, scan_key, scan_val,
                   scan_status>>

\* lines 58-61 and 67: the split, key and val
ScanSplit ==
    /\ AtChar
    /\ HasEquals(part)
    /\ Separates(part, cursor + 1, in_quotes)
    /\ split_pos' = cursor + 1
    /\ scan_key' = strip(SubSeq(part, 1, cursor))
    /\ scan_val' = strip(SubSeq(part, cursor + 2, Len(part)))
    /\ scan_status' = "split"
    /\ UNCHANGED <<beside_scanner, part, cursor, in_quotes, quote_char>>

\* any other character, a quoted "=" included
ScanSkip ==
    /\ AtChar
    /\ HasEquals(part)
    /\ ~IsDelimiter(part, cursor + 1)
    /\ ~Separates(part, cursor + 1, in_quotes)
    /\ cursor' = cursor + 1
    /\ UNCHANGED <<beside_scanner, part, in_quotes, quote_char, split_pos,
                   scan_key, scan_val, scan_status>>

\* lines 64-65: the loop ended with split_pos == -1, ValueError
ScanEndRaises ==
    /\ scan_status = "scanning"
    /\ HasEquals(part)
    /\ cursor = Len(part)
    /\ scan_status' = "raised"
    /\ UNCHANGED <<beside_scanner, part, cursor, in_quotes, quote_char,
                   split_pos, scan_key, scan_val>>

ScanInit ==
    /\ LoopIdle
    /\ DispatcherIdle
    /\ ParserIdle
    /\ PlannerIdle
    /\ RetrierIdle
    /\ \E n \in 0..MaxChars : part \in Segments(n)
    /\ cursor = 0
    /\ in_quotes = FALSE
    /\ quote_char = "none"
    /\ split_pos = 0
    /\ scan_key = <<>>
    /\ scan_val = <<>>
    /\ scan_status = "scanning"

ScanNext == ScanNoEquals \/ ScanQuote \/ ScanSplit \/ ScanSkip \/ ScanEndRaises

ScanSpec == ScanInit /\ [][ScanNext]_vars

\* ------------------------------------------------------------------------
\* generate_plan (modules/decision.py), lines 138-150
\* ------------------------------------------------------------------------
\* A line of the model's answer: kind "FC" or "FA" when the stripped line
\* starts with FUNCTION_CALL: or FINAL_ANSWER:, "TXT" otherwise; lead: the
\* line has blanks around it; at: its position in the answer.
PlanLine(kind, lead, at) == [kind |-> kind, lead |-> lead, at |-> at]
PlanLineKinds == {"FC", "FA", "TXT"}

\* "FINAL_ANSWER: [unknown]"
Unknown == PlanLine("FA", FALSE, 0)

\* the answers of n lines
Replies(n) ==
    {[i \in 1..n |-> PlanLine(f[i][1], f[i][2], i)] :
        f \in [1..n -> PlanLineKinds \X BOOLEAN]}

\* the parameters of ModelManager.generate_text (model_manager.py, line 32)
\* and the arguments of the call at decision.py, line 139
GenerateTextParams == {"prompt", "max_retries"}
PlanCallArguments == {"prompt", "max_retries", "prompt_type"}

\* Python binds the arguments of a call to the parameters of the function,
\* and raises TypeError for a keyword that is no parameter
Binds(arguments, params) == arguments \subseteq params

\* lines 142-146: the first line that, stripped, starts with a marker, or
\* the unknown answer
RECURSIVE FirstMarked(_)
FirstMarked(lines) ==
    IF lines = <<>> THEN Unknown
    ELSE IF Strip(Head(lines)).kind \in {"FC", "FA"} THEN Strip(Head(lines))
    ELSE FirstMarked(Tail(lines))

\* lines 138-146: the call of generate_text, and what follows when it returns
PlanCallsModel ==
    /\ plan_status = "called"
    /\ IF ~Binds(PlanCallArguments, GenerateTextParams) \/ model_reply.raises
       THEN plan_status' = "handling" /\ plan_result' = plan_result
       ELSE plan_status' = "returned" /\ plan_result' = FirstMarked(model_reply.lines)
    /\ UNCHANGED <<loop, dispatcher, parser, scanner, retrier, model_reply>>

\* lines 148-150: except Exception, the unknown answer
PlanHandles ==
    /\ plan_status = "handling"
    /\ plan_status' = "returned"
    /\ plan_result' = Unknown
    /\ UNCHANGED <<loop, dispatcher, parser, scanner, retrier, model_reply>>

PlanInit ==
    /\ LoopIdle
    /\ DispatcherIdle
    /\ ParserIdle
    /\ ScannerIdle
    /\ RetrierIdle
    /\ \E n \in 0..MaxLines, raises \in BOOLEAN :
          /\ raises => n = 0
          /\ \E lines \in Replies(n) : model_reply = [raises |-> raises, lines |-> lines]
    /\ plan_status = "called"
    /\ plan_result = [kind |-> "none", lead |-> FALSE, at |-> 0]

PlanNext == PlanCallsModel \/ PlanHandles

PlanSpec == PlanInit /\ [][PlanNext]_vars

\* ------------------------------------------------------------------------
\* ModelManager._gemini_generate_with_retry (modules/model_manager.py),
\* lines 41-85
\* ------------------------------------------------------------------------
MaxRetriesBound == 3

\* What the text of an error raised by _gemini_generate holds: mark, the
\* substring the test of lines 51-55 looks for ("none" when it holds none of
\* them); hint, the seconds of a "Please retry in Ns" it states (0: none).
ModelError(mark, hint) == [mark |-> mark, hint |-> hint]
RateLimitMarks == {"429", "RESOURCE_EXHAUSTED", "quota"}
StatedDelay == 5
ModelErrors ==
    {ModelError(m, h) : m \in RateLimitMarks \cup {"none"}, h \in {0, StatedDelay}}

\* lines 51-55: is_rate_limit
IsRateLimit_any(err) == TRUE
IsRateLimit(err) == err.mark \in RateLimitMarks

\* lines 59-74: retry_delay, 60 seconds or the stated delay and 10 more
RetryDelay(err) == IF err.hint = 0 THEN 60 ELSE err.hint + 10

\* line 76: another attempt follows this one
MayRetry(a, max) == a < max - 1

\* lines 43-45: the model answers, the text is returned
GenerateReturns ==
    /\ retry_status = "running"
    /\ attempt < retry_max
    /\ model_calls' = model_calls + 1
    /\ retry_status' = "returned"
    /\ UNCHANGED <<loop, dispatcher, parser, scanner, planner, retry_max, attempt,
                   sleeps, errors>>

\* lines 46-82: the model raises an error that is_rate_limit accepts; sleep
\* and continue when an attempt is left, raise otherwise
GenerateRateLimited ==
    /\ retry_status = "running"
    /\ attempt < retry_max
    /\ \E err \in ModelErrors :
          /\ IsRateLimit(err)
          /\ model_calls' = model_calls + 1
          /\ errors' = Append(errors, err)
          /\ IF MayRetry(attempt, retry_max)
             THEN /\ sleeps' = Append(sleeps, RetryDelay(err))
                  /\ attempt' = attempt + 1
                  /\ retry_status' = retry_status
             ELSE /\ sleeps' = sleeps
                  /\ attempt' = attempt
                  /\ retry_status' = "raised"
    /\ UNCHANGED <<loop, dispatcher, parser, scanner, planner, retry_max>>

\* lines 46-57, 84-85: any other error is raised again at once
GenerateFails ==
    /\ retry_status = "running"
    /\ attempt < retry_max
    /\ \E err \in ModelErrors :
          /\ ~IsRateLimit(err)
          /\ model_calls' = model_calls + 1
          /\ errors' = Append(errors, err)
          /\ retry_status' = "raised"
    /\ UNCHANGED <<loop, dispatcher, parser, scanner, planner, retry_max, attempt,
                   sleeps>>

\* line 43: range(max_retries) is used up, the function ends without a
\* return statement
RetryFallsThrough ==
    /\ retry_status = "running"
    /\ attempt >= retry_max
    /\ retry_status' = "fell_through"
    /\ UNCHANGED <<loop, dispatcher, parser, scanner, planner, retry_max, attempt,
                   model_calls, sleeps, errors>>

RetryInit ==
    /\ LoopIdle
    /\ DispatcherIdle
    /\ ParserIdle
    /\ ScannerIdle
    /\ PlannerIdle
    /\ retry_max \in 0..MaxRetriesBound
    /\ attempt = 0
    /\ model_calls = 0
    /\ sleeps = <<>>
    /\ errors = <<>>
    /\ retry_status = "running"

RetryNext ==
    GenerateReturns \/ GenerateRateLimited \/ GenerateFails \/ RetryFallsThrough

RetrySpec == RetryInit /\ [][RetryNext]_vars

\* ------------------------------------------------------------------------
\* Properties
\* ------------------------------------------------------------------------
Running == pc \in {"perceive", "retrieve", "decide", "dispatch"}
Stopped == pc \in {"completion", "done"}
SomeStepMissing == \E s \in StepNames : ~workflow_steps[s]
EveryStepDone == \A s \in StepNames : workflow_steps[s]

\* the transition is a decision of the gate on a plan that has the marker
GateDecides == pc = "decide" /\ outcome' \in {"rejected", "accepted"}

\* C1: run() never lets an exception out and returns a non-empty answer,
\* whatever perception, memory retrieval, the planner, the parser and the
\* dispatcher do, for every max_steps >= 0.
C1_AlwaysReturnsAnswer ==
    pc = "done" => returned.kind \notin {"None", "raised"}

C1_Witness ==
    pc = "done" /\ outcome = "planner_raised" /\ returned.kind = "session_failed"

\* C2 (as amended): when the plan has the marker while a required step is
\* missing, the step sets no final answer, calls no tool, sets the corrective
\* query that names the missing steps, and the loop goes on to the next index
\* if range(max_steps) has one; at the last index the loop ends.
C2_RejectedWhileMissing ==
    [][(GateDecides /\ SomeStepMissing) =>
          /\ outcome' = "rejected"
          /\ final_answer' = NoAnswer
          /\ in_flight' = NoCall
          /\ dispatch_count' = dispatch_count
          /\ query' = Query("corrective", {s \in StepNames : ~workflow_steps[s]})
          /\ IF step + 1 < max_steps
             THEN pc' = "perceive" /\ step' = step + 1
             ELSE pc' = "completion"]_vars

C2_Witness ==
    /\ outcome = "rejected"
    /\ pc = "perceive"
    /\ query.kind = "corrective"
    /\ final_answer = NoAnswer

\* C2 (as stated): a rejected proposal always leaves the loop running with
\* the corrective query.
C2_AsStated ==
    [][(GateDecides /\ SomeStepMissing) =>
          /\ final_answer' = NoAnswer
          /\ query'.kind = "corrective"
          /\ pc' = "perceive"]_vars

\* C3: an answer taken from the planner or from perception, or the
\* synthesized "Task completed successfully" answer, is only ever the final
\* answer while all four required steps are verified.
C3_TerminalAnswerOnlyWhenVerified ==
    /\ final_answer.kind \in {"planner", "perception", "success"} => EveryStepDone
    /\ returned.kind \in {"planner", "perception", "success"} => EveryStepDone

C3_Witness ==
    pc = "done" /\ returned.kind = "planner" /\ EveryStepDone

\* indices of the lines of a plan that start, once stripped, with the marker
TerminalLineIndices(p) == {i \in 1..Len(p) : p[i].kind = "FA"}

\* the answer the gate is to adopt from an accepted plan
AdoptedAnswer(p) ==
    IF TerminalLineIndices(p) = {}
    THEN Answer("success", NoLine, {})
    ELSE LET m == CHOOSE i \in TerminalLineIndices(p) :
                     \A j \in TerminalLineIndices(p) : j <= i
         IN Answer("planner", [p[m] EXCEPT !.lead = FALSE], {})

\* C4 (as amended): when the plan has the marker and all four steps are
\* verified, the loop stops in that step without a dispatcher call; the final
\* answer is the last line that starts with the marker once stripped, or, if
\* no line starts with it, the synthesized "Task completed successfully"
\* answer.
C4_AcceptedAnswer ==
    [][(GateDecides /\ EveryStepDone) =>
          /\ outcome' = "accepted"
          /\ pc' = "completion"
          /\ in_flight' = NoCall
          /\ dispatch_count' = dispatch_count
          /\ final_answer' = AdoptedAnswer(plan')]_vars

C4_Witness ==
    /\ outcome = "accepted"
    /\ Len(plan) = 2
    /\ final_answer.kind = "planner"
    /\ final_answer.text.id = 2

\* C4 (as stated): the final answer of an accepted proposal is always a line
\* of the planner output.
C4_AsStated ==
    [][(GateDecides /\ EveryStepDone) =>
          /\ pc' = "completion"
          /\ final_answer'.kind = "planner"]_vars

\* C5: the loop runs at most max_steps iterations, whatever the
\* collaborators return.
C5_AtMostMaxSteps ==
    /\ iterations <= max_steps
    /\ Running => step < max_steps

C5_Witness ==
    pc = "done" /\ max_steps >= 3 /\ iterations = max_steps /\ outcome = "rejected"

\* C6: consecutive_failures never exceeds 3, and once it is 3 the loop has
\* stopped with the abort answer and no call is in flight.
C6_FailureCap ==
    /\ consecutive_failures <= 3
    /\ consecutive_failures = 3 =>
          Stopped /\ final_answer.kind = "abort" /\ in_flight = NoCall

C6_Witness ==
    consecutive_failures = 3 /\ pc = "done" /\ returned.kind = "abort"

\* C7 (as stated): the same fingerprint proposed in consecutive steps is
\* never dispatched a fourth time in a row.
C7_AsStated ==
    ~(identical_run >= 4 /\ pc = "dispatch")

\* C8 (as amended): between two successful returns of a fingerprint (or from
\* the start of the session to its first successful return) the dispatcher is
\* called at most 3 times for it; the proposal that would be the fourth call
\* fails without reaching the dispatcher.
C8_AttemptsSinceSuccess ==
    /\ \A f \in Fingerprints : open_attempts[f] <= 3
    /\ outcome = "blocked" =>
          /\ in_flight = NoCall
          /\ execute_attempts = 0
          /\ consecutive_failures >= 1
          /\ open_attempts[prev_proposal] = 3

C8_Witness ==
    outcome = "blocked" /\ \E f \in Fingerprints : dispatch_count[f] = 3

\* C8 (as stated): over a session the dispatcher is called at most 3 times
\* for one fingerprint.
C8_AsStated ==
    \A f \in Fingerprints : dispatch_count[f] <= 3

\* C9: at one step index the dispatcher is called at most 3 times, and no
\* entry of step_retry_count ever exceeds 3.
C9_PerStepCaps ==
    /\ execute_attempts <= 3
    /\ step_retry_count <= 3
    /\ retry_peak <= 3

C9_Witness ==
    pc = "dispatch" /\ execute_attempts = 1 /\ retry_peak = 1

\* C10 (as stated): whatever the planner returns at the last index
\* max_steps - 1, run() returns the partial-completion answer.
C10_AsStated ==
    (pc = "done" /\ step = max_steps - 1
        /\ outcome \in {"rejected", "accepted", "budget"})
    => returned.kind = "partial"

\* no required step has been verified
NoStepSatisfied == \A s \in StepNames : ~workflow_steps[s]

\* run() returned from a session of three steps in which neither collaborator
\* raised, every plan was a tool call and no call satisfied a required step
ThreeStepsOfCalls ==
    /\ pc = "done"
    /\ max_steps = 3
    /\ outcome \notin {"retrieve_raised", "planner_raised", "raised"}
    /\ phases.calls = phases.decide
    /\ NoStepSatisfied

\* C11 (amended): with max_steps = 3 and a planner that always proposes tool
\* calls none of which satisfies a required step, run() performs 3 perceive
\* phases and 3 decide phases but only 2 dispatcher invocations, because the
\* budget check of the last index comes before the execution, and returns
\* the partial-completion answer.
C11_ThreeStepsTwoCalls ==
    ThreeStepsOfCalls =>
        /\ phases.perceive = 3
        /\ phases.decide = 3
        /\ phases.execute = 2
        /\ returned.kind = "partial"

C11_Witness ==
    ThreeStepsOfCalls /\ phases.execute = 2 /\ returned.kind = "partial"

\* C11 (as stated): in that scenario run() performs exactly 3 perceive, 3
\* decide and 3 execute phases and returns the partial-completion answer.
C11_AsStated ==
    ThreeStepsOfCalls =>
        /\ phases.perceive = 3
        /\ phases.decide = 3
        /\ phases.execute = 3
        /\ returned.kind = "partial"

\* sequence a is an initial part of sequence b
IsPrefix(a, b) == Len(a) <= Len(b) /\ \A i \in 1..Len(a) : a[i] = b[i]

\* C17: the memory trace is append-only: in every step of run() the trace
\* before the step is a prefix of the trace after it.
C17_AppendOnly == [][IsPrefix(memory_trace, memory_trace')]_vars

C17_Witness ==
    Len(memory_trace) = 2 /\ memory_trace[1] # memory_trace[2]

\* C18: the index an iteration starts with lies in 0..max_steps-1 and is
\* greater than the index of the iteration before it.
C18_IndexIncreases ==
    [][iterations' # iterations =>
          /\ step' \in 0..(max_steps - 1)
          /\ iterations >= 1 => step' > step]_vars

C18_Witness ==
    iterations = 3 /\ step = 2 /\ pc = "perceive"

\* initialize() has returned
Initialized == initialized = "returned"

\* the names that have an entry in tool_map
Registered == {n \in DOMAIN tool_map : tool_map[n] # NoEntry}

\* C12: whatever fails in the discovery of a backend, initialize() does not
\* raise, and when it has returned every tool listed by a backend whose
\* discovery did not fail has an entry in tool_map.
C12_DiscoveryIsolated ==
    /\ initialized # "raised"
    /\ Initialized => \A n \in ListedNames : clean_by[n] # 0 => n \in Registered

C12_Witness ==
    /\ Initialized
    /\ raised # {}
    /\ \E n \in ListedNames : clean_by[n] # 0 /\ clean_by[n] \notin raised

\* C13 (as stated): after initialize() no entry of tool_map is bound to a
\* backend whose discovery pass raised.
C13_AsStated ==
    Initialized => \A n \in Registered : tool_map[n] \notin raised

\* C14 (as stated): after initialize() every name is bound to the latest
\* backend among those that listed it in a discovery that succeeded, and a
\* call of the name uses that backend.
C14_AsStated ==
    Initialized =>
        /\ \A n \in ListedNames : tool_map[n] = clean_by[n]
        /\ (call.op = "call_tool" /\ call.phase \notin {"idle", "not_found"})
              => call.backend = clean_by[call.name]

\* C15: call_tool for a name without an entry in tool_map ends with the
\* not-found error, opens no transport and leaves tool_map as it was.
C15_UnknownName ==
    [][(call' # call /\ call'.op = "call_tool" /\ call.phase \in Finished
           /\ Lookup(tool_map, call'.name) = NoEntry)
          => (call'.phase = "not_found" /\ call'.opened = 0 /\ call'.invoked = 0
                 /\ tool_map' = tool_map)]_vars

C15_Witness ==
    call.op = "call_tool" /\ call.phase = "not_found" /\ Registered # {}

\* C16: one call_tool for a registered name opens one transport and invokes
\* the tool on it at most once, exactly once when the call returns; a failed
\* invocation is not tried again.
C16_NoRetry ==
    call.op = "call_tool" =>
        /\ call.opened <= 1
        /\ call.invoked <= 1
        /\ call.phase \in {"invoking", "returned"} => (call.opened = 1 /\ call.invoked = 1)

C16_Witness ==
    call.op = "call_tool" /\ call.phase = "raised" /\ call.invoked = 1

\* C19: once initialize() has returned, no dispatcher operation changes
\* tool_map.
C19_RegistryReadOnly == [][Initialized => tool_map' = tool_map]_vars

C19_Witness ==
    /\ Initialized
    /\ call.op = "call_tool"
    /\ call.phase = "raised"
    /\ Lookup(tool_map, call.name) # NoEntry

\* parse_function_call has ended
ParseEnded == parse_status \in {"returned", "raised"}

WellFormed == \A i \in 1..Len(parts) : parts[i].key # NoEquals

\* every key is dotted and all keys start with the same segment
SharePrefix ==
    /\ Len(parts) >= 2
    /\ WellFormed
    /\ \A i \in 1..Len(parts) :
          Len(parts[i].key) >= 2 /\ parts[i].key[1] = parts[1].key[1]

\* no key continues another key with further segments
NoConflict ==
    \A i, j \in 1..Len(parts) :
        parts[i].key = parts[j].key \/ ~StartsWith(parts[i].key, parts[j].key)

\* a later parameter has the key of parameter i or an initial part of it
Overwritten(i) ==
    \E j \in (i + 1)..Len(parts) : StartsWith(parts[i].key, parts[j].key)

\* C20 (amended): when no key continues another key, every one of the
\* well-formed parameters is merged into args without an error; and once all
\* parameters are merged, the value of every parameter is in args under its
\* dotted key unless a later parameter assigned that key or an initial part
\* of it, so a later parameter never removes a sibling.
C20_MergesDottedKeys ==
    /\ (ParseEnded /\ WellFormed /\ NoConflict /\ line # "no_marker") =>
          pos = Len(parts)
    /\ pos = Len(parts) =>
          \A i \in 1..Len(parts) :
              Overwritten(i) \/ Leaf(parts[i].key, parts[i].val) \in args

C20_Witness ==
    /\ parse_status = "returned"
    /\ SharePrefix
    /\ \E l, m \in args : l.path # m.path /\ Len(l.path) = 2 /\ Len(m.path) = 2

\* C20 (as stated): for parameters whose dotted keys share a prefix the
\* parse returns a result that has a leaf under the key of every parameter
\* (here for a tool without the logging of lines 93-97).
C20_AsStated ==
    (ParseEnded /\ SharePrefix /\ line = "other_tool") =>
        /\ parse_status = "returned"
        /\ \A i \in 1..Len(parts) : \E l \in args : l.path = parts[i].key

\* the call awaited at the dispatcher raises, and the loop goes on
CallFailedAndContinues == pc = "dispatch" /\ pc' = "perceive" /\ outcome' = "call_failed"

\* C23 (as stated): after a failed call, with both caps not reached, the next
\* iteration runs with the same step index and an error-annotated query.
C23_AsStated ==
    [][CallFailedAndContinues => (step' = step /\ query'.kind = "retry_error")]_vars

\* the call awaited at the dispatcher returns, and the loop goes on
CallReturnedAndContinues ==
    pc = "dispatch" /\ pc' = "perceive" /\ outcome' \in {"succeeded", "format_failed"}

\* C24 (as stated): the step after a step whose dispatcher call returned
\* starts with the consecutive-failure counter and the repeat counter at 0.
C24_AsStated ==
    [][CallReturnedAndContinues =>
          (consecutive_failures' = 0 /\ repeated_calls' = 0)]_vars

\* the required step a tool serves
FlagOf(t) ==
    IF IsSearchTool(t) THEN "search_completed"
    ELSE IF IsCreateTool(t) THEN "sheet_created"
    ELSE IF IsAddTool(t) THEN "data_added"
    ELSE "link_retrieved"

\* the item the step appended to the trace
NewItem == memory_trace'[Len(memory_trace')]

\* C25 (as stated): when a call of a search, add-data or link tool returns
\* what the verifier of the tool looks for, the flag of the tool is set
\* before the next planner decision.
C25_AsStated ==
    [][(pc = "dispatch" /\ outcome' = "succeeded" /\ ~IsCreateTool(in_flight[1])
           /\ NewItem.mark)
          => workflow_steps'[FlagOf(in_flight[1])]]_vars

\* C26 (amended): a step appends an item to the trace only if its
\* dispatcher call returned, or if it proposed create_google_sheet while a
\* sheet id is stored, whose result the loop simulates without a call.
C26_AppendsOnlyAfterCall ==
    [][memory_trace' # memory_trace =>
          \/ pc = "dispatch" /\ outcome' \in {"succeeded", "format_failed"}
          \/ /\ pc = "decide"
             /\ execute_attempts' = execute_attempts \/ execute_attempts' = 0
             /\ in_flight' = NoCall
             /\ IsCreateTool(NewItem.tool)
             /\ created_sheet_id # 0]_vars

C26_Witness ==
    /\ outcome = "simulated"
    /\ Len(memory_trace) >= 2
    /\ phases.execute = 1

\* C26 (as stated): a step appends an item to the trace only if its
\* dispatcher call returned.
C26_AsStated ==
    [][memory_trace' # memory_trace =>
          (pc = "dispatch" /\ outcome' \in {"succeeded", "format_failed"})]_vars

C28_AsStated ==
    [][(pc = "dispatch" /\ ~IsSearchTool(in_flight[1]) /\ outcome' = "succeeded")
          => NewItem.mark]_vars

\* C29: whatever perception returns, the step goes on to memory retrieval at
\* the same index, with no answer set.
C29_PerceptionNeverFatal ==
    [][pc = "perceive" =>
          (pc' = "retrieve" /\ step' = step /\ final_answer' = final_answer
              /\ returned' = returned)]_vars

C29_Witness ==
    pc = "decide" /\ step = 1 /\ phases.perceive = 2 /\ final_answer = NoAnswer

\* a parse error or a raising dispatcher call ends the step
ParseOrCallFailure ==
    \/ pc = "decide" /\ outcome' = "parse_failed"
    \/ pc = "dispatch" /\ outcome' = "call_failed"
    \/ pc = "dispatch" /\ outcome' = "aborted"
    \/ pc = "decide" /\ outcome' = "aborted" /\ ParsePlan(plan') = NoCall

\* C30: a parse error or a raising dispatcher call adds one to the retry
\* count of the step and to the consecutive-failure counter, and the loop
\* goes on or aborts on the failure cap; the session-failed answer comes
\* only from memory retrieval or the planner raising.
C30_StepFailures ==
    [][/\ ParseOrCallFailure =>
            /\ consecutive_failures' = consecutive_failures + 1
            /\ retry_peak' >= step_retry_count + 1
            /\ pc' \in {"perceive", "completion"}
            /\ outcome' = "aborted" <=> consecutive_failures' >= max_consecutive_failures
            /\ outcome' = "aborted" => final_answer'.kind = "abort"
       /\ (final_answer'.kind = "session_failed" /\ final_answer.kind # "session_failed")
            => (pc \in {"retrieve", "decide"}
                   /\ outcome' \in {"retrieve_raised", "planner_raised"})]_vars

C30_Witness ==
    /\ outcome = "parse_failed"
    /\ consecutive_failures = 2
    /\ phases.execute = 1

\* C22 (as stated): the parse fails exactly when the line lacks the marker or
\* some parameter has no "=" outside quotes, and returns for every other line
\* (here for parameters none of whose keys continues another's).
C22_AsStated ==
    (ParseEnded /\ NoConflict) =>
        (parse_status = "raised" <=> (line = "no_marker" \/ ~WellFormed))

\* character i of the segment opens a quoted span: it is a quote that no
\* backslash precedes and it is not inside a span; character i is inside the
\* span opened at j when no such quote of the same kind lies between them
RECURSIVE Opens(_, _), InSpan(_, _)
Opens(str, i) == IsDelimiter(str, i) /\ ~InSpan(str, i)
InSpan(str, i) ==
    \E j \in 1..(i - 1) :
        /\ Opens(str, j)
        /\ \A k \in (j + 1)..(i - 1) : ~(IsDelimiter(str, k) /\ str[k] = str[j])

\* C21: the split is at the first "=" that is not inside an open quoted span
\* (a span opens and closes at quotes no backslash precedes); key and value
\* are what is before and after it, stripped, further "=" included; and the
\* segment is refused only if every "=" of it is inside such a span.
C21_SplitsAtFirstUnquotedEquals ==
    /\ scan_status = "split" =>
          /\ part[split_pos] = "eq" /\ ~InSpan(part, split_pos)
          /\ \A j \in 1..(split_pos - 1) : part[j] = "eq" => InSpan(part, j)
          /\ scan_key = strip(SubSeq(part, 1, split_pos - 1))
          /\ scan_val = strip(SubSeq(part, split_pos + 1, Len(part)))
    /\ scan_status = "raised" =>
          \A j \in 1..Len(part) : part[j] = "eq" => InSpan(part, j)

\* a quoted "=" was passed over and the value has an "="
C21_Witness ==
    /\ scan_status = "split"
    /\ \E j \in 1..(split_pos - 1) : part[j] = "eq"
    /\ \E k \in 1..Len(scan_val) : scan_val[k] = "eq"

\* a step of the loop has decided on the plan of the planner
StepDecided == pc = "decide" /\ phases'.decide = phases.decide + 1

\* C31 (as stated): the repeat counter goes up only in a step whose
\* immediately preceding step proposed the same fingerprint.
C31_AsStated ==
    [][(StepDecided /\ repeated_calls' = repeated_calls + 1) =>
          prev_proposal = prev_proposal']_vars

\* the fingerprint has three calls that raised since its last return
ThreeFailed(f) == pc = "decide" /\ open_attempts[f] = max_tool_attempts

\* C32: since the last return of a fingerprint (or since the start of the
\* session) the dispatcher is called at most 3 times for it; once three calls
\* have raised with no return in between, a step that proposes the
\* fingerprint makes no dispatcher call: it counts as a failure of the step,
\* or loop detection ends the session.
C32_NoFourthAttempt ==
    [][/\ \A f \in Fingerprints : open_attempts'[f] <= max_tool_attempts
       /\ \A f \in Fingerprints :
             (ThreeFailed(f) /\ StepDecided /\ prev_proposal' = f) =>
                /\ dispatch_count' = dispatch_count
                /\ in_flight' = NoCall /\ pc' # "dispatch"
                /\ \/ /\ outcome' \in {"blocked", "aborted"}
                      /\ consecutive_failures' = consecutive_failures + 1
                   \/ outcome' = "loop_detected"]_vars

\* the fourth proposal in a row of the fingerprint was refused
C32_Witness ==
    /\ outcome = "blocked"
    /\ prev_proposal # NoCall
    /\ tool_call_attempts[prev_proposal] = max_tool_attempts + 1
    /\ dispatch_count[prev_proposal] = max_tool_attempts

\* a sheet-creating call is awaited after a sheet-creating call of the
\* session has returned a sheet id
SecondCreateInFlight ==
    /\ pc = "dispatch"
    /\ IsCreateTool(in_flight[1])
    /\ HasItem(memory_trace, in_flight[1], TRUE)

\* C33 (as stated): in a session at most one sheet-creating dispatcher call
\* returns successfully with a sheet id.
C33_AsStated ==
    [][(SecondCreateInFlight /\ outcome' = "succeeded") => ~NewItem.mark]_vars

\* the gate rejects the terminal answer of the planner
GateRejects == pc = "decide" /\ outcome' = "rejected"

\* C34: a step in which the gate rejects the terminal answer leaves the
\* memory trace, the four flags, the failure counter, the repeat counter, the
\* last fingerprint and the attempt counters as they are, calls no
\* dispatcher, replaces the query by the corrective one and uses up one
\* index of range(max_steps).
C34_RejectionFrame ==
    [][GateRejects =>
          /\ UNCHANGED <<memory_trace, workflow_steps, consecutive_failures,
                         repeated_calls, last_tool_call, tool_call_attempts,
                         dispatch_count, in_flight>>
          /\ in_flight = NoCall
          /\ query'.kind = "corrective"
          /\ iterations' + (IF pc' = "perceive" THEN 0 ELSE 1) = iterations + 1
          /\ IF step + 1 < max_steps
             THEN pc' = "perceive" /\ step' = step + 1
             ELSE pc' = "completion" /\ step' = step]_vars

\* a rejection in a session that has a memory item, a failure and a repeat
C34_Witness ==
    /\ outcome = "rejected"
    /\ pc = "perceive"
    /\ memory_trace # <<>>
    /\ consecutive_failures >= 1
    /\ repeated_calls >= 1

\* Dispatcher.call is invoked
CallStarts == dispatch_count' # dispatch_count

\* C35: a call is awaited exactly while run() is suspended at the dispatcher;
\* a call starts only when none is awaited, and it is the first call of its
\* iteration.
C35_OneCallAtATime ==
    [][/\ (in_flight' # NoCall) <=> (pc' = "dispatch")
       /\ CallStarts =>
             /\ in_flight = NoCall /\ pc = "decide"
             /\ in_flight' # NoCall
             /\ execute_attempts = 0 /\ execute_attempts' = 1
             /\ phases'.execute = phases.execute + 1
       /\ phases'.execute <= iterations']_vars

\* the second call of a session is awaited, after the first one has ended
C35_Witness ==
    /\ pc = "dispatch"
    /\ in_flight # NoCall
    /\ phases.execute = 2
    /\ execute_attempts = 1

\* no dispatcher operation is in progress
DispatcherQuiet == call.phase \in Finished

\* C36 (as stated): whenever no dispatcher operation is in progress, every
\* client and session that an operation made has been closed.
C36_AsStated ==
    DispatcherQuiet => open_clients = 0

\* line i of the model's answer is its first line with a marker
FirstMarkerAt(i) ==
    /\ model_reply.lines[i].kind \in {"FC", "FA"}
    /\ \A j \in 1..(i - 1) : model_reply.lines[j].kind = "TXT"

Marked(err) == err.mark \in {"429", "RESOURCE_EXHAUSTED", "quota"}

\* C38: one call of _gemini_generate_with_retry invokes the model at most
\* max_retries times; it sleeps and tries again only after a rate-limit
\* error, so every error but the last one is a rate-limit error and there is
\* one sleep per retry; any other error is raised at its first occurrence; a
\* rate-limit error on the last attempt is raised, and the call raises for a
\* rate-limit error only then; the counters of the run loop stay as they were.
C38_BoundedRetry ==
    retry_status # "idle" =>
        /\ model_calls <= retry_max
        /\ Len(sleeps) = attempt
        /\ Len(sleeps) <= model_calls
        /\ \A i \in 1..Len(sleeps) : Marked(errors[i])
        /\ \A i \in 1..Len(errors) :
              ~Marked(errors[i]) => i = Len(errors) /\ retry_status = "raised"
        /\ \A i \in 1..Len(errors) :
              Marked(errors[i]) /\ i = retry_max => retry_status = "raised"
        /\ (retry_status = "raised" /\ Marked(errors[Len(errors)]))
              => model_calls = retry_max
        /\ retry_status = "raised" => Len(errors) = model_calls
        /\ retry_status = "running" => Len(errors) = Len(sleeps)
        /\ step_retry_count = 0
        /\ consecutive_failures = 0

C38_Witness ==
    /\ retry_status = "raised"
    /\ retry_max = 3
    /\ model_calls = 3
    /\ Len(sleeps) = 2
    /\ Marked(errors[3])

\* C39: within a session a required-step flag that is true stays true in
\* every later state, and a created-sheet identifier that is set is never
\* cleared.
C39_FlagsMonotone ==
    [][/\ \A s \in StepNames : workflow_steps[s] => workflow_steps'[s]
       /\ created_sheet_id # 0 => created_sheet_id' # 0]_vars

\* a call failed after the search and the sheet creation had been verified
C39_Witness ==
    /\ workflow_steps["search_completed"]
    /\ workflow_steps["sheet_created"]
    /\ created_sheet_id # 0
    /\ outcome = "call_failed"

====
